---- MODULE Spec2Model ----
(***************************************************************************)
(* The sigil engine of app.py: the Letter Atlas (letter_mapping), the      *)
(* word preprocessor (preprocess_word) and the renderer (draw_rose_sigil). *)
(* A word is a sequence of one-character strings; a token is a string of   *)
(* one or two characters; a coordinate is a pair of integers in units of   *)
(* 1/100000 of a plot unit; the figure is the sequence of the artists      *)
(* added to the axes, in the order the code adds them.                     *)
(***************************************************************************)
EXTENDS Integers, Sequences, FiniteSets, TLC

VARIABLES
    pc,               \* position of the request in draw_rose_sigil
    arg,              \* the word passed to draw_rose_sigil
    word,             \* preprocess_word: word after word.upper()
    i,                \* preprocess_word: loop index (1-based here)
    skip_next,        \* preprocess_word: the skip flag
    processed_word,   \* preprocess_word: tokens appended so far
    letter_mapping,   \* the module-level Atlas dictionary
    all_positions,    \* draw_rose_sigil: the layout dictionary
    artists,          \* draw_rose_sigil: what was added to the axes, in order
    k,                \* draw_rose_sigil: index of the next token of the loop
    prev_pos, prev_color, first_pos, last_pos, seen_positions,
    title,            \* draw_rose_sigil: the title of the figure
    earlier           \* history: a completed earlier call (word and figure)

vars == <<pc, arg, word, i, skip_next, processed_word, letter_mapping,
          all_positions, artists, k, prev_pos, prev_color, first_pos,
          last_pos, seen_positions, title, earlier>>

-----------------------------------------------------------------------------
(* Bounds of the model *)

MaxLen == 3

MaxSessionLen == 2

\* Input characters: Atlas letters in both cases (the digraphs CH, TH and the
\* aliases A/E among them), a digit, and a letter whose upper-casing is two
\* characters long.
Alphabet == {"A", "E", "B", "C", "H", "T", "a", "c", "h", "1", "ß"}

SessionAlphabet == {"A", "e", "C", "H", "1"}

WordsOver(S, n) == UNION {[1..m -> S] : m \in 0..n}

Words == WordsOver(Alphabet, MaxLen)

SessionWords == WordsOver(SessionAlphabet, MaxSessionLen)

-----------------------------------------------------------------------------
(* Python values *)

\* None, and the falsy value of "if prev_pos:"; a coordinate is a pair.
None == <<>>

EmptyDict == [s \in {} |-> None]

\* dict.update / item assignment: later entries override earlier ones.
DictUpdate(d, e) == [s \in (DOMAIN d) \cup (DOMAIN e) |-> IF s \in DOMAIN e THEN e[s] ELSE d[s]]

-----------------------------------------------------------------------------
(* The Letter Atlas *)

Entry(letter, color) == <<[letter |-> letter, color |-> color]>>

LetterMappingSrc ==
    [key \in {"A","E","B","C","CH","H","G","GH","D","DH","V","U","W","O","Z",
              "T","TH","I","J","Y","K","KH","L","M","N","S","SH","P","PH","F",
              "X","TZ","Q","R","RH"} |->
        CASE key = "A" -> Entry("A", "#FFFF00")
          [] key = "E" -> Entry("A", "#FFFF00")
          [] key = "B" -> Entry("B", "#FFFF00")
          [] key = "C" -> Entry("G", "#0000FF")
          [] key = "CH" -> Entry("Ch", "#FFD700")
          [] key = "H" -> Entry("H", "#FF0000")
          [] key = "G" -> Entry("G", "#0000FF")
          [] key = "GH" -> Entry("GH", "#0000FF")
          [] key = "D" -> Entry("D", "#008000")
          [] key = "DH" -> Entry("DH", "#008000")
          [] key = "V" -> Entry("V", "#FF4500")
          [] key = "U" -> Entry("V", "#FF4500")
          [] key = "W" -> Entry("V", "#FF4500")
          [] key = "O" -> Entry("O", "#4B0082")
          [] key = "Z" -> Entry("Z", "#FFA500")
          [] key = "T" -> Entry("T", "#FFFF00")
          [] key = "TH" -> Entry("TH", "#4B0082")
          [] key = "I" -> Entry("I", "#9ACD32")
          [] key = "J" -> Entry("I", "#9ACD32")
          [] key = "Y" -> Entry("I", "#9ACD32")
          [] key = "K" -> Entry("K", "#800080")
          [] key = "KH" -> Entry("KH", "#9400D3")
          [] key = "L" -> Entry("L", "#008000")
          [] key = "M" -> Entry("M", "#0000FF")
          [] key = "N" -> Entry("N", "#20B2AA")
          [] key = "S" -> Entry("S", "#FF4500")
          [] key = "SH" -> Entry("Sh", "#FF0000")
          [] key = "P" -> Entry("P", "#FF0000")
          [] key = "PH" -> Entry("PH", "#FFA500")
          [] key = "F" -> Entry("F", "#FF0000")
          [] key = "X" -> Entry("X", "#800080")
          [] key = "TZ" -> Entry("X", "#800080")
          [] key = "Q" -> Entry("Q", "#9400D3")
          [] key = "R" -> Entry("R", "#FFA500")
          [] key = "RH" -> Entry("RH", "#FFD700")]

-----------------------------------------------------------------------------
(* str.upper *)

AsciiLower == <<"a","b","c","d","e","f","g","h","i","j","k","l","m",
                "n","o","p","q","r","s","t","u","v","w","x","y","z">>

AsciiUpper == <<"A","B","C","D","E","F","G","H","I","J","K","L","M",
                "N","O","P","Q","R","S","T","U","V","W","X","Y","Z">>

\* The upper-casing of one character: a sequence of characters, since the
\* upper-casing of a character can be longer than the character.
UpperChar(c) ==
    IF \E j \in 1..26 : AsciiLower[j] = c
    THEN <<AsciiUpper[CHOOSE j \in 1..26 : AsciiLower[j] = c]>>
    ELSE IF c = "ß" THEN <<"S", "S">>
    ELSE <<c>>

RECURSIVE UpperFrom(_, _)
UpperFrom(w, j) == IF j > Len(w) THEN <<>> ELSE UpperChar(w[j]) \o UpperFrom(w, j + 1)

NoUpper(w) == w

\* word.upper()
Upper(w) == UpperFrom(w, 1)

-----------------------------------------------------------------------------
(* preprocess_word *)

\* "if i < len(word) - 1", with the 0-based index of the code
NoTwoLetterWindow(idx, w) == FALSE

TwoLetterWindow(idx, w) == idx - 1 < Len(w) - 1

TwoLetterCombo(idx, w) == w[idx] \o w[idx + 1]

AnyCharMapped(c, m) == TRUE

\* "in letter_mapping", of a two-letter combo or of one character
InMapping(c, m) == c \in DOMAIN m

NoSkip == FALSE

\* "skip_next = True" after a two-letter combo
SkipAfterCombo == TRUE

\* One iteration of "for i in range(len(word))": the flag and the tokens
\* after the body, from the flag and the tokens before it.
LoopBody(idx, w, m, st) ==
    IF st.skip_next
    THEN [skip_next |-> FALSE, processed_word |-> st.processed_word]
    ELSE IF TwoLetterWindow(idx, w) /\ InMapping(TwoLetterCombo(idx, w), m)
    THEN [skip_next |-> SkipAfterCombo,
          processed_word |-> Append(st.processed_word, TwoLetterCombo(idx, w))]
    ELSE IF InMapping(w[idx], m)
    THEN [skip_next |-> FALSE, processed_word |-> Append(st.processed_word, w[idx])]
    ELSE [skip_next |-> FALSE, processed_word |-> st.processed_word]

RECURSIVE LoopFrom(_, _, _, _)
LoopFrom(idx, w, m, st) ==
    IF idx > Len(w) THEN st ELSE LoopFrom(idx + 1, w, m, LoopBody(idx, w, m, st))

\* The whole function, for a word the request does not hold in its state.
PreprocessWord(w, m) ==
    LoopFrom(1, Upper(w), m, [skip_next |-> FALSE, processed_word |-> <<>>]).processed_word

-----------------------------------------------------------------------------
(* The layout table of draw_rose_sigil *)

OuterWithChKey == <<"H","Z","V","E","Q","X","O","S","N","L","I","T","CH">>

ordered_outer_letters == <<"H","Z","V","E","Q","X","O","S","N","L","I","T","Ch">>

ordered_middle_letters == <<"R","RH","P","PH","F","K","KH","TH","G","GH","D","DH","B">>

\* np.cos(j*(2*np.pi/13)) and np.sin(j*(2*np.pi/13)) for j = 0..12, rounded
\* to 1/10000
Cos13 == <<10000, 8855, 5681, 1205, -3546, -7485, -9709, -9709, -7485, -3546, 1205, 5681, 8855>>

Sin13 == <<0, 4647, 8230, 9927, 9350, 6631, 2393, -2393, -6631, -9350, -9927, -8230, -4647>>

\* A length in tenths of a plot unit, as a coordinate
Tenths(t) == t * 10000

\* The dict comprehension over enumerate(letters): position j (0-based) of n
\* letters on the circle of the given radius; of two equal letters the later
\* one would win.
RingPositions(letters, radiusTenths) ==
    [s \in {letters[j] : j \in 1..Len(letters)} |->
        LET j == CHOOSE j \in 1..Len(letters) :
                     /\ letters[j] = s
                     /\ \A j2 \in 1..Len(letters) : letters[j2] = s => j2 <= j
        IN  <<(0 - Cos13[j]) * radiusTenths, Sin13[j] * radiusTenths>>]

CenterPositions ==
    [s \in {"A", "M", "Sh"} |->
        CASE s = "A" -> <<0, Tenths(7)>>
          [] s = "M" -> <<0 - Tenths(7), 0>>
          [] s = "Sh" -> <<Tenths(7), 0>>]

BuildAllPositions ==
    DictUpdate(DictUpdate(DictUpdate(EmptyDict,
        RingPositions(ordered_outer_letters, 20)),
        RingPositions(ordered_middle_letters, 12)),
        CenterPositions)

-----------------------------------------------------------------------------
(* Artists added to the axes *)

Circle(center, radiusTenths, edgecolor, lw) ==
    [kind |-> "Circle", center |-> center, radius |-> Tenths(radiusTenths),
     edgecolor |-> edgecolor, lw |-> lw]

Line2D(from, to, color, lw) ==
    [kind |-> "Line2D", from |-> from, to |-> to, color |-> color, lw |-> lw]

Text(pos, s, color) ==
    [kind |-> "Text", pos |-> pos, text |-> s, color |-> color]

BoundingCircle == Circle(<<0, 0>>, 25, "black", 2)

SigilTitle == "An Alchemelodic Sigil Generator"

-----------------------------------------------------------------------------
(* draw_rose_sigil *)

\* "if char in letter_mapping:"
HasEntry(char, m) == char \in DOMAIN m

\* "if prev_pos:", "if first_pos:", "if last_pos:"
Truthy(v) == v # None

SegmentColorOfCurrent(prevColor, color) == color

\* the color of the segment into the current symbol
SegmentColor(prevColor, color) == prevColor

ForgetSeen(seen, pos) == seen

\* seen_positions[(x,y)] = True
SeenAfter(seen, pos) == seen \cup {pos}

LatestAsFirst(first, pos) == pos

\* "if first_pos is None: first_pos = (x,y)"
FirstPosAfter(first, pos) == IF first = None THEN pos ELSE first

MarkAlways(first) == TRUE

\* the guard of the start marker
HasStart(first) == Truthy(first)

PopLookup(m, char) == [m EXCEPT ![char] = Tail(@)]

\* letter_mapping[char][0] reads the Atlas and leaves it as it is
AtlasAfterLookup(m, char) == m

\* What one iteration of "for char in word" adds to the axes
TokenArtists(char, m, positions, prevPos, prevColor, seen) ==
    IF ~HasEntry(char, m) THEN <<>>
    ELSE LET letter == m[char][1].letter
             color == m[char][1].color
         IN  IF letter \notin DOMAIN positions THEN <<>>
             ELSE LET pos == positions[letter]
                  IN  <<Text(pos, letter, color)>>
                      \o (IF Truthy(prevPos)
                          THEN <<Line2D(prevPos, pos, SegmentColor(prevColor, color), 2)>>
                          ELSE <<>>)
                      \o (IF pos \in seen THEN <<Circle(pos, 2, color, 2)>> ELSE <<>>)

\* Whether the iteration reaches line 182 (the symbol has a coordinate)
Resolves(char, m, positions) ==
    HasEntry(char, m) /\ m[char][1].letter \in DOMAIN positions

Init ==
    /\ pc = "idle"
    /\ arg = <<>>
    /\ word = <<>>
    /\ i = 1
    /\ skip_next = FALSE
    /\ processed_word = <<>>
    /\ letter_mapping = LetterMappingSrc
    /\ all_positions = EmptyDict
    /\ artists = <<>>
    /\ k = 1
    /\ prev_pos = None
    /\ prev_color = None
    /\ first_pos = None
    /\ last_pos = None
    /\ seen_positions = {}
    /\ title = ""
    /\ earlier = <<>>

\* draw_rose_sigil(w) is called and enters preprocess_word(w)
Call(S) ==
    /\ pc = "idle"
    /\ \E w \in S :
        /\ arg' = w
        /\ word' = Upper(w)
    /\ i' = 1
    /\ skip_next' = FALSE
    /\ processed_word' = <<>>
    /\ pc' = "scan"
    /\ UNCHANGED <<letter_mapping, all_positions, artists, k, prev_pos, prev_color,
                   first_pos, last_pos, seen_positions, title, earlier>>

\* one iteration of the loop of preprocess_word
ForIndex ==
    /\ pc = "scan"
    /\ i <= Len(word)
    /\ LET st == LoopBody(i, word, letter_mapping,
                          [skip_next |-> skip_next, processed_word |-> processed_word])
       IN  /\ skip_next' = st.skip_next
           /\ processed_word' = st.processed_word
    /\ i' = i + 1
    /\ UNCHANGED <<pc, arg, word, letter_mapping, all_positions, artists, k, prev_pos,
                   prev_color, first_pos, last_pos, seen_positions, title, earlier>>

\* preprocess_word returns; draw_rose_sigil builds the layout and the axes
Setup ==
    /\ pc = "scan"
    /\ i > Len(word)
    /\ all_positions' = BuildAllPositions
    /\ artists' = <<BoundingCircle>>
    /\ prev_pos' = None
    /\ prev_color' = None
    /\ first_pos' = None
    /\ last_pos' = None
    /\ seen_positions' = {}
    /\ k' = 1
    /\ pc' = "draw"
    /\ UNCHANGED <<arg, word, i, skip_next, processed_word, letter_mapping, title, earlier>>

\* one iteration of "for char in word"
ForChar ==
    /\ pc = "draw"
    /\ k <= Len(processed_word)
    /\ LET char == processed_word[k]
       IN  /\ artists' = artists \o TokenArtists(char, letter_mapping, all_positions,
                                                  prev_pos, prev_color, seen_positions)
           /\ IF Resolves(char, letter_mapping, all_positions)
              THEN LET pos == all_positions[letter_mapping[char][1].letter]
                   IN  /\ seen_positions' = SeenAfter(seen_positions, pos)
                       /\ first_pos' = FirstPosAfter(first_pos, pos)
                       /\ last_pos' = pos
                       /\ prev_pos' = pos
                       /\ prev_color' = letter_mapping[char][1].color
                       /\ letter_mapping' = AtlasAfterLookup(letter_mapping, char)
              ELSE UNCHANGED <<seen_positions, first_pos, last_pos, prev_pos,
                               prev_color, letter_mapping>>
    /\ k' = k + 1
    /\ UNCHANGED <<pc, arg, word, i, skip_next, processed_word, all_positions, title,
                   earlier>>

\* the markers after the loop, the title, and the image is saved
Finish ==
    /\ pc = "draw"
    /\ k > Len(processed_word)
    /\ artists' = artists
           \o (IF HasStart(first_pos) THEN <<Circle(first_pos, 2, "black", 3)>> ELSE <<>>)
           \o (IF Truthy(last_pos)
               THEN <<Line2D(last_pos, <<last_pos[1] + Tenths(2), last_pos[2] - Tenths(2)>>,
                             "black", 3)>>
               ELSE <<>>)
    /\ title' = SigilTitle
    /\ pc' = "done"
    /\ UNCHANGED <<arg, word, i, skip_next, processed_word, letter_mapping, all_positions,
                   k, prev_pos, prev_color, first_pos, last_pos, seen_positions, earlier>>

\* the figure is closed and the frame of the call is gone
Leave ==
    /\ pc' = "idle"
    /\ arg' = <<>>
    /\ word' = <<>>
    /\ i' = 1
    /\ skip_next' = FALSE
    /\ processed_word' = <<>>
    /\ all_positions' = EmptyDict
    /\ artists' = <<>>
    /\ k' = 1
    /\ prev_pos' = None
    /\ prev_color' = None
    /\ first_pos' = None
    /\ last_pos' = None
    /\ seen_positions' = {}
    /\ title' = ""
    /\ UNCHANGED letter_mapping

Return ==
    /\ pc = "done"
    /\ Leave
    /\ UNCHANGED earlier

\* as Return, and the call is remembered as the earlier call
ReturnRemembered ==
    /\ pc = "done"
    /\ Leave
    /\ earlier' = <<[arg |-> arg, artists |-> artists, first_pos |-> first_pos,
                     last_pos |-> last_pos, all_positions |-> all_positions]>>

Next ==
    \/ Call(Words)
    \/ ForIndex
    \/ Setup
    \/ ForChar
    \/ Finish
    \/ Return

Spec == Init /\ [][Next]_vars

NextSession ==
    \/ Call(SessionWords)
    \/ ForIndex
    \/ Setup
    \/ ForChar
    \/ Finish
    \/ Return
    \/ ReturnRemembered

SpecSession == Init /\ [][NextSession]_vars

-----------------------------------------------------------------------------
(* Vocabulary of the properties *)

AtlasKeys == DOMAIN LetterMappingSrc

\* preprocess_word is at its return statement
ScanEnded == pc = "scan" /\ i > Len(word)

\* the loop of draw_rose_sigil is running or over
Drawing == pc \in {"draw", "done"}

RECURSIVE Concat(_)
Concat(tokens) == IF tokens = <<>> THEN "" ELSE Head(tokens) \o Concat(Tail(tokens))

RECURSIVE SumLen(_)
SumLen(tokens) == IF tokens = <<>> THEN 0 ELSE Len(Head(tokens)) + SumLen(Tail(tokens))

IsKeyChar(c) == c \in AtlasKeys

\* w with every character that is not an Atlas key removed
MappedOnly(w) == SelectSeq(w, IsKeyChar)

\* The reference greedy tokenizer, with an explicit index cursor
RECURSIVE RefTokensFrom(_, _)
RefTokensFrom(w, cursor) ==
    IF cursor > Len(w) THEN <<>>
    ELSE IF cursor + 1 <= Len(w) /\ (w[cursor] \o w[cursor + 1]) \in AtlasKeys
    THEN <<w[cursor] \o w[cursor + 1]>> \o RefTokensFrom(w, cursor + 2)
    ELSE IF w[cursor] \in AtlasKeys
    THEN <<w[cursor]>> \o RefTokensFrom(w, cursor + 1)
    ELSE RefTokensFrom(w, cursor + 1)

\* C1: when preprocess_word returns, its tokens are those of the reference
\* greedy tokenizer run on the upper-cased word; "CH" gives the one token CH.
C1_GreedyReference ==
    ScanEnded =>
        /\ processed_word = RefTokensFrom(word, 1)
        /\ (word = <<"C", "H">> => processed_word = <<"CH">>)

C1_Witness ==
    /\ ScanEnded
    /\ arg = <<"C", "H", "H">>
    /\ processed_word = <<"CH", "H">>

\* C2 as stated: preprocess_word(w) and preprocess_word(w'), w' being w
\* without its unmapped characters, are the same token sequence.
C2_DroppedSameTokens ==
    ScanEnded => processed_word = PreprocessWord(MappedOnly(word), LetterMappingSrc)

\* No unmapped character of w stands between two mapped characters that form
\* an Atlas two-letter key once it is removed.
NoJoinedCombo(w) ==
    \A a, b \in 1..Len(w) :
        ( /\ a + 1 < b
          /\ IsKeyChar(w[a])
          /\ IsKeyChar(w[b])
          /\ \A c \in (a + 1)..(b - 1) : ~IsKeyChar(w[c]) )
        => (w[a] \o w[b]) \notin AtlasKeys

\* C2 amended: the tokens of w and of w' spell the same characters, those of
\* w'; and the two token sequences are equal whenever removing the unmapped
\* characters joins no two characters into an Atlas two-letter key.
C2_DroppedSameCharacters ==
    ScanEnded =>
        /\ Concat(processed_word) = Concat(MappedOnly(word))
        /\ Concat(processed_word)
             = Concat(PreprocessWord(MappedOnly(word), LetterMappingSrc))
        /\ NoJoinedCombo(word) =>
             processed_word = PreprocessWord(MappedOnly(word), LetterMappingSrc)

C2_Witness ==
    /\ ScanEnded
    /\ arg = <<"A", "1", "B">>
    /\ processed_word = <<"A", "B">>
    /\ PreprocessWord(<<"A", "B">>, letter_mapping) = <<"A", "B">>

\* The ASCII letter of the other case, for a letter; the character itself
\* otherwise
SwapCase(c) ==
    IF \E j \in 1..26 : AsciiLower[j] = c
    THEN AsciiUpper[CHOOSE j \in 1..26 : AsciiLower[j] = c]
    ELSE IF \E j \in 1..26 : AsciiUpper[j] = c
    THEN AsciiLower[CHOOSE j \in 1..26 : AsciiUpper[j] = c]
    ELSE c

RECURSIVE RecasingsFrom(_, _)
RecasingsFrom(w, j) ==
    IF j > Len(w) THEN {<<>>}
    ELSE {<<c>> \o rest : c \in {w[j], SwapCase(w[j])}, rest \in RecasingsFrom(w, j + 1)}

\* w with every ASCII lower-case letter replaced by its upper-case letter
AllUpper(w) ==
    [j \in 1..Len(w) |->
        IF \E n \in 1..26 : AsciiLower[n] = w[j] THEN SwapCase(w[j]) ELSE w[j]]

UpperCaseStrings ==
    {AsciiUpper[a] : a \in 1..26} \cup {AsciiUpper[a] \o AsciiUpper[b] : a, b \in 1..26}

\* C3: every re-casing of the word gives the tokens the word itself gives,
\* which are those of the upper-cased word, and every token is an upper-case
\* Atlas key.
C3_CaseInsensitive ==
    ScanEnded =>
        /\ \A w2 \in RecasingsFrom(arg, 1) :
               PreprocessWord(w2, letter_mapping) = processed_word
        /\ PreprocessWord(AllUpper(arg), letter_mapping) = processed_word
        /\ \A t \in 1..Len(processed_word) :
               processed_word[t] \in AtlasKeys \cap UpperCaseStrings

C3_Witness ==
    /\ ScanEnded
    /\ arg = <<"c", "h", "A">>
    /\ processed_word = <<"CH", "A">>
    /\ <<"C", "H", "a">> \in RecasingsFrom(arg, 1)

RECURSIVE ConcatAt(_, _, _)
ConcatAt(w, S, j) ==
    IF j > Len(w) THEN ""
    ELSE (IF j \in S THEN w[j] ELSE "") \o ConcatAt(w, S, j + 1)

\* the tokens, concatenated, are the characters of w at some positions, in order
SpellsSubsequence(tokens, w) ==
    \E S \in SUBSET (1..Len(w)) : ConcatAt(w, S, 1) = Concat(tokens)

\* C10: during the scan the tokens cover no more characters than were passed,
\* the flag is set only while a next character exists; at the return the
\* tokens are Atlas keys of length 1 or 2 spelling a subsequence of the
\* upper-cased word, and the flag is false.
C10_ScanInvariant ==
    pc = "scan" =>
        /\ SumLen(processed_word) = Len(Concat(processed_word))
        /\ SumLen(processed_word) <= (i - 1) + (IF skip_next THEN 1 ELSE 0)
        /\ skip_next => i <= Len(word)
        /\ \A t \in 1..Len(processed_word) :
               /\ processed_word[t] \in AtlasKeys
               /\ Len(processed_word[t]) \in {1, 2}
        /\ ScanEnded =>
               /\ SpellsSubsequence(processed_word, word)
               /\ SumLen(processed_word) <= Len(word)
               /\ skip_next = FALSE

C10_Witness ==
    /\ ScanEnded
    /\ word = <<"1", "C", "H">>
    /\ processed_word = <<"CH">>
    /\ skip_next = FALSE

-----------------------------------------------------------------------------
(* Properties of the renderer *)

\* The resolved symbol sequence of the first n tokens: symbol, color and
\* coordinate of every token whose symbol has a coordinate.
RECURSIVE ResolvedUpTo(_)
ResolvedUpTo(n) ==
    IF n = 0 THEN <<>>
    ELSE LET e == letter_mapping[processed_word[n]][1]
         IN  IF e.letter \in DOMAIN all_positions
             THEN Append(ResolvedUpTo(n - 1),
                         [letter |-> e.letter, color |-> e.color,
                          pos |-> all_positions[e.letter]])
             ELSE ResolvedUpTo(n - 1)

\* the symbols the loop has gone through so far
ResolvedSoFar == ResolvedUpTo(k - 1)

IsLabel(a) == a.kind = "Text"

IsSegment(a) == a.kind = "Line2D" /\ a.lw = 2

IsRepeatRing(a) == a.kind = "Circle" /\ a.radius = Tenths(2) /\ a.lw = 2

IsStartMarker(a) == a.kind = "Circle" /\ a.radius = Tenths(2) /\ a.lw = 3

IsEndTick(a) == a.kind = "Line2D" /\ a.lw = 3

Count(seq, Test(_)) == Len(SelectSeq(seq, Test))

OccurredEarlier(r, n) == \E m \in 1..(n - 1) : r[m].letter = r[n].letter

RECURSIVE ExpectedRings(_, _)
ExpectedRings(r, n) ==
    IF n = 0 THEN <<>>
    ELSE ExpectedRings(r, n - 1)
         \o (IF OccurredEarlier(r, n) THEN <<Circle(r[n].pos, 2, r[n].color, 2)>> ELSE <<>>)

PosOfA == <<0, 70000>>

\* C4: the repeat rings on the axes are, in order, one ring in the symbol's
\* color at the symbol's coordinate for every step whose symbol occurred at
\* an earlier step, and no other; distinct layout symbols have distinct
\* coordinates; "AA" and "AE" give exactly one ring, at A's coordinate.
C4_RepeatRings ==
    Drawing =>
        /\ SelectSeq(artists, IsRepeatRing)
             = ExpectedRings(ResolvedSoFar, Len(ResolvedSoFar))
        /\ \A s, t \in DOMAIN all_positions :
               s # t => all_positions[s] # all_positions[t]
        /\ (pc = "done" /\ word \in {<<"A", "A">>, <<"A", "E">>}) =>
               SelectSeq(artists, IsRepeatRing) = <<Circle(PosOfA, 2, "#FFFF00", 2)>>

C4_Witness ==
    /\ pc = "done"
    /\ arg = <<"A", "H", "E">>
    /\ Count(artists, IsRepeatRing) = 1
    /\ artists[7] = Circle(PosOfA, 2, "#FFFF00", 2)

ExpectedSegments(r) ==
    [j \in 1..(Len(r) - 1) |-> Line2D(r[j].pos, r[j + 1].pos, r[j].color, 2)]

\* C5: the path segments on the axes are, in order, one segment from the
\* coordinate of resolved symbol j to that of symbol j+1 in the color of
\* symbol j, for every j below the number of symbols gone through.
C5_Segments ==
    Drawing =>
        /\ SelectSeq(artists, IsSegment) = ExpectedSegments(ResolvedSoFar)
        /\ Len(ResolvedSoFar) >= 1 =>
               Count(artists, IsSegment) = Len(ResolvedSoFar) - 1

C5_Witness ==
    /\ pc = "done"
    /\ arg = <<"C", "A", "H">>
    /\ SelectSeq(artists, IsSegment)
         = <<Line2D(all_positions["G"], PosOfA, "#0000FF", 2),
             Line2D(PosOfA, all_positions["H"], "#FFFF00", 2)>>

IsMarker(a) == IsStartMarker(a) \/ IsEndTick(a)

\* C6: while the loop runs there is no start marker and no end tick; when
\* the call is over and a symbol resolved, the last two artists are the
\* start marker at the first resolved coordinate and the end tick at the
\* last one, and there is no other start marker or end tick.
C6_Markers ==
    /\ pc = "draw" => Count(artists, IsMarker) = 0
    /\ (pc = "done" /\ ResolvedSoFar # <<>>) =>
           LET r == ResolvedSoFar
               n == Len(artists)
               last == r[Len(r)].pos
           IN  /\ n >= 3
               /\ artists[n - 1] = Circle(r[1].pos, 2, "black", 3)
               /\ artists[n] = Line2D(last, <<last[1] + 20000, last[2] - 20000>>, "black", 3)
               /\ Count(artists, IsStartMarker) = 1
               /\ Count(artists, IsEndTick) = 1

C6_Witness ==
    /\ pc = "done"
    /\ arg = <<"H", "A", "A">>
    /\ Count(artists, IsRepeatRing) = 1
    /\ artists[Len(artists) - 1].center = all_positions["H"]
    /\ artists[Len(artists)].from = PosOfA

\* the word has no character that is an Atlas key
FullyUnmapped(w) == \A j \in 1..Len(w) : ~IsKeyChar(w[j])

\* C7: for an empty or fully unmapped word the loop and the end of the call
\* add nothing to the axes, which hold the bounding circle alone, and the
\* call can always go on to its end.
C7_EmptyWord ==
    (pc \in {"scan", "draw", "done"} /\ FullyUnmapped(word)) =>
        /\ processed_word = <<>>
        /\ Drawing => artists = <<BoundingCircle>>
        /\ pc # "done" => ENABLED (ForIndex \/ Setup \/ ForChar \/ Finish)

C7_Witness ==
    /\ pc = "done"
    /\ arg = <<"1", "1">>
    /\ artists = <<BoundingCircle>>
    /\ title = SigilTitle

\* C8: every symbol of the Atlas has a coordinate in the layout table, and
\* every token gone through has put exactly one label on the axes, so no
\* token was skipped.
C8_EverySymbolPlaced ==
    Drawing =>
        /\ \A key \in DOMAIN letter_mapping :
               letter_mapping[key][1].letter \in DOMAIN all_positions
        /\ Count(artists, IsLabel) = k - 1
        /\ Len(ResolvedSoFar) = k - 1
        /\ pc = "done" => Len(ResolvedSoFar) = Len(processed_word)

C8_Witness ==
    /\ pc = "done"
    /\ arg = <<"C", "H", "A">>
    /\ processed_word = <<"CH", "A">>
    /\ Count(artists, IsLabel) = 2

\* C9: the Atlas always has its initial contents; when a call is over, the
\* layout table is the one of the remembered earlier call, and if the word
\* is the word of that call, so are the artists and the first and the last
\* coordinate.
C9_Stateless ==
    /\ letter_mapping = LetterMappingSrc
    /\ (pc = "done" /\ earlier # <<>>) =>
           /\ earlier[1].all_positions = all_positions
           /\ earlier[1].arg = arg =>
                  /\ earlier[1].artists = artists
                  /\ earlier[1].first_pos = first_pos
                  /\ earlier[1].last_pos = last_pos

C9_Witness ==
    /\ pc = "done"
    /\ earlier # <<>>
    /\ arg = <<"A", "e">>
    /\ earlier[1].arg = arg
    /\ Count(artists, IsRepeatRing) = 1

====
